---- MODULE Spec2Model ----
(***************************************************************************)
(* Model of chessbot.py (Chess Bot v0.1): the interactive session of       *)
(* main(), the human move interpreter parse_uci_move, the bot policy       *)
(* choose_bot_move and the termination classifier game_over_message.       *)
(*                                                                         *)
(* The chess rules live in the python-chess library (chess.Board).  A      *)
(* board is modelled by what chessbot.py reads from it: the side to move,  *)
(* the legal moves, the capturing moves and the five terminal signals.     *)
(* board.push hands back any board the library's own invariants allow,     *)
(* with the side to move toggled.                                          *)
(***************************************************************************)
EXTENDS Integers, Sequences, FiniteSets, TLC

VARIABLES
    pc,            \* position of the single thread of control in main()
    side,          \* local `side` of main (line 85/87), a string of characters
    bot_is_white,  \* local `bot_is_white` of main (line 88)
    board,         \* local `board` of main (line 93/96)
    move,          \* local `move` of main (line 114/128)
    rng,           \* state of the module-level random source used by random.choice
    outcome,       \* the game_over_message printed (line 122/131/138), "" when none
    warned,        \* "Invalid FEN..." was printed (line 95)
    goodbye,       \* "Goodbye." was printed (line 26)
    interrupted,   \* "Interrupted. Exiting." was printed (line 146)
    exit_status,   \* process exit status, Running while the process lives
    applied,       \* number of board.push calls completed
    snapshots,     \* number of print_fen calls after a push (line 120/136)
    outcomes,      \* number of outcome messages printed
    rejects,       \* consecutive rejected human tokens for the current ply
    asked,         \* party the pending `move` was acquired from
    moveBoard      \* the board `move` was validated or chosen against

vars == <<pc, side, bot_is_white, board, move, rng, outcome, warned, goodbye,
          interrupted, exit_status, applied, snapshots, outcomes, rejects,
          asked, moveBoard>>

-----------------------------------------------------------------------------
(* Bounds of the model *)

MaxPlies == 2

MaxRejects == 2

RngStates == 3

-----------------------------------------------------------------------------
(* Strings are sequences of one-character strings, so that strip(), lower() *)
(* and the UCI parser are computed and not assumed.                         *)

WHITE == TRUE

BLACK == FALSE

\* exit_status while the process has not exited
Running == -1

LowerChar(c) ==
    CASE c = "W" -> "w"
      [] c = "B" -> "b"
      [] c = "E" -> "e"
      [] c = "Q" -> "q"
      [] c = "X" -> "x"
      [] OTHER -> c

\* The string left as typed (a forgotten .lower()).
Lower_forgotten(s) == s

Lower(s) == [i \in 1..Len(s) |-> LowerChar(s[i])]

RECURSIVE LStrip(_)
LStrip(s) == IF s # <<>> /\ Head(s) = " " THEN LStrip(Tail(s)) ELSE s

RECURSIVE RStrip(_)
RStrip(s) ==
    IF s # <<>> /\ s[Len(s)] = " " THEN RStrip(SubSeq(s, 1, Len(s) - 1)) ELSE s

Strip(s) == RStrip(LStrip(s))

-----------------------------------------------------------------------------
(* Moves: chess.Move is (from_square, to_square, promotion) *)

Files == {"a", "b", "c", "d", "e", "f", "g", "h"}

Ranks == {"1", "2", "3", "4", "5", "6", "7", "8"}

PieceSymbols == {"p", "n", "b", "r", "q", "k"}

NoPromotion == "-"

NoMove == [from |-> <<>>, to |-> <<>>, promotion |-> NoPromotion]

InvalidUci == [from |-> <<>>, to |-> <<>>, promotion |-> "ValueError"]

IsSquare(s) == Len(s) = 2 /\ s[1] \in Files /\ s[2] \in Ranks

\* chess.Move.from_uci: four or five characters, two square names and an
\* optional promotion piece letter; anything else raises ValueError.
from_uci(text) ==
    IF /\ Len(text) \in {4, 5}
       /\ IsSquare(SubSeq(text, 1, 2))
       /\ IsSquare(SubSeq(text, 3, 4))
       /\ SubSeq(text, 1, 2) # SubSeq(text, 3, 4)
       /\ (Len(text) = 5 => text[5] \in PieceSymbols)
    THEN [from |-> SubSeq(text, 1, 2), to |-> SubSeq(text, 3, 4),
          promotion |-> IF Len(text) = 5 THEN text[5] ELSE NoPromotion]
    ELSE InvalidUci

\* move.uci()
uci_of(m) ==
    m.from \o m.to \o (IF m.promotion = NoPromotion THEN <<>> ELSE <<m.promotion>>)

E2E4 == [from |-> <<"e", "2">>, to |-> <<"e", "4">>, promotion |-> NoPromotion]

E7E8Q == [from |-> <<"e", "7">>, to |-> <<"e", "8">>, promotion |-> "q"]

\* The moves the boards of the model can hold, in the library's generation order.
MoveOrder == <<E2E4, E7E8Q>>

MoveUniverse == {MoveOrder[i] : i \in 1..Len(MoveOrder)}

-----------------------------------------------------------------------------
(* Boards: what chessbot.py reads from a chess.Board *)

BoardShapes ==
    [turn : BOOLEAN, legal : SUBSET MoveUniverse, captures : SUBSET MoveUniverse,
     checkmate : BOOLEAN, stalemate : BOOLEAN, insufficient : BOOLEAN,
     seventyfive : BOOLEAN, fivefold : BOOLEAN]

\* python-chess: captures are legal moves; checkmate and stalemate are the two
\* ways of having no legal move (in check or not); the 75-move rule needs a
\* legal move.
BoardOK(b) ==
    /\ b.captures \subseteq b.legal
    /\ (b.legal = {}) = (b.checkmate \/ b.stalemate)
    /\ ~(b.checkmate /\ b.stalemate)
    /\ (b.seventyfive => b.legal # {})

Boards == {b \in BoardShapes : BoardOK(b)}

\* chess.Board(fen): a fresh board has no move stack, hence no repetition.
NewBoards == {b \in Boards : ~b.fivefold}

\* chess.Board(): white to move, e2e4 legal, nothing to capture, not over.
StandardBoard ==
    [turn |-> WHITE, legal |-> {E2E4}, captures |-> {},
     checkmate |-> FALSE, stalemate |-> FALSE, insufficient |-> FALSE,
     seventyfive |-> FALSE, fivefold |-> FALSE]

\* The unbound local `board` before line 93.
NoBoard ==
    [turn |-> WHITE, legal |-> {}, captures |-> {},
     checkmate |-> FALSE, stalemate |-> FALSE, insufficient |-> FALSE,
     seventyfive |-> FALSE, fivefold |-> FALSE]

\* board.push(m): the boards the library may hand back.
PushResults(b, m) == {n \in Boards : n.turn = ~b.turn}

\* board.is_game_over()
is_game_over(b) ==
    b.checkmate \/ b.stalemate \/ b.insufficient \/ b.seventyfive \/ b.fivefold

-----------------------------------------------------------------------------
(* The pure functions of chessbot.py *)

\* The parser without its legality test: any well-formed token is a move.
parse_uci_move_unchecked(b, text) ==
    LET m == from_uci(text)
    IN  IF m = InvalidUci THEN NoMove ELSE m

\* The parser matching on the two squares only, the promotion letter ignored.
parse_uci_move_squares_only(b, text) ==
    LET m == from_uci(text)
        same == {l \in b.legal : l.from = m.from /\ l.to = m.to}
    IN  IF m = InvalidUci \/ same = {} THEN NoMove
        ELSE CHOOSE l \in same : TRUE

\* parse_uci_move(board, text), lines 35-44: None (NoMove) if the text does
\* not parse or the move is not legal on this board.
parse_uci_move(b, text) ==
    LET m == from_uci(text)
    IN  IF m = InvalidUci THEN NoMove
        ELSE IF m \in b.legal THEN m ELSE NoMove

\* The list a set of moves is enumerated as (list(board.legal_moves)).
ListOf(S) == SelectSeq(MoveOrder, LAMBDA m : m \in S)

\* random.choice(pool) with the random source in state r
random_choice(pool, r) == pool[(r % Len(pool)) + 1]

\* The random source after one draw
rng_next(r) == (r + 1) % RngStates

\* The policy without its capture preference: any legal move.
choose_bot_move_any(b, r) ==
    LET legal == ListOf(b.legal)
    IN  IF legal = <<>> THEN NoMove ELSE random_choice(legal, r)

\* choose_bot_move(board), lines 47-58
choose_bot_move(b, r) ==
    LET legal == ListOf(b.legal)
        captures == SelectSeq(legal, LAMBDA m : m \in b.captures)
        pool == IF captures # <<>> THEN captures ELSE legal
    IN  IF legal = <<>> THEN NoMove ELSE random_choice(pool, r)

\* The classifier with the stalemate test moved in front of the checkmate test.
game_over_message_stalemate_first(b) ==
    IF b.stalemate THEN "Draw by stalemate."
    ELSE IF b.checkmate
    THEN IF b.turn = WHITE THEN "Checkmate. Black wins." ELSE "Checkmate. White wins."
    ELSE IF b.insufficient THEN "Draw by insufficient material."
    ELSE IF b.seventyfive THEN "Draw by 75-move rule."
    ELSE IF b.fivefold THEN "Draw by fivefold repetition."
    ELSE "Game over."

\* The classifier naming the side to move as the winner of a checkmate.
game_over_message_mover_wins(b) ==
    IF b.checkmate
    THEN IF b.turn = WHITE THEN "Checkmate. White wins." ELSE "Checkmate. Black wins."
    ELSE IF b.stalemate THEN "Draw by stalemate."
    ELSE IF b.insufficient THEN "Draw by insufficient material."
    ELSE IF b.seventyfive THEN "Draw by 75-move rule."
    ELSE IF b.fivefold THEN "Draw by fivefold repetition."
    ELSE "Game over."

\* The classifier without its fivefold-repetition branch.
game_over_message_no_fivefold(b) ==
    IF b.checkmate
    THEN IF b.turn = WHITE THEN "Checkmate. Black wins." ELSE "Checkmate. White wins."
    ELSE IF b.stalemate THEN "Draw by stalemate."
    ELSE IF b.insufficient THEN "Draw by insufficient material."
    ELSE IF b.seventyfive THEN "Draw by 75-move rule."
    ELSE "Game over."

\* game_over_message(board), lines 61-76
game_over_message(b) ==
    IF b.checkmate
    THEN IF b.turn = WHITE THEN "Checkmate. Black wins." ELSE "Checkmate. White wins."
    ELSE IF b.stalemate THEN "Draw by stalemate."
    ELSE IF b.insufficient THEN "Draw by insufficient material."
    ELSE IF b.seventyfive THEN "Draw by 75-move rule."
    ELSE IF b.fivefold THEN "Draw by fivefold repetition."
    ELSE "Game over."

\* Turn parity kept by the controller itself instead of asking the board:
\* white moved first, so the human moves on even plies when the human is white.
human_turn_now_parity == (applied % 2 = 0) = ~bot_is_white

\* The helper forgetting the side assignment: the human is taken to be white.
human_turn_now_white_only == board.turn = WHITE

\* human_turn_now(), lines 101-103
human_turn_now ==
    \/ (board.turn = WHITE /\ ~bot_is_white)
    \/ (board.turn = BLACK /\ bot_is_white)

-----------------------------------------------------------------------------
(* The inputs the session is offered *)

SideTokens ==
    { <<"w">>, <<"W">>, <<"b">>, <<"B">>, <<" ", "b", " ">>, <<"x">>, <<>>,
      <<"w", "h", "i", "t", "e">> }

MoveTokens ==
    { <<"e", "2", "e", "4">>, <<"E", "2", "E", "4">>, <<" ", "e", "2", "e", "4">>,
      <<"e", "7", "e", "8", "q">>, <<"e", "7", "e", "8">>, <<"e", "2", "e", "5">>,
      <<"e", "2", "e", "4", "x">>, <<"z", "z">>, <<>> }

\* The starting-position line: empty, one the library rejects (ValueError),
\* or the FEN of some fresh board.
EmptyFen == ""

GarbageFen == "garbage"

ValidFen == "fen"

FenInputs ==
    {[text |-> EmptyFen, board |-> NoBoard], [text |-> GarbageFen, board |-> NoBoard]}
      \cup {[text |-> ValidFen, board |-> b] : b \in NewBoards}

-----------------------------------------------------------------------------
(* The session: main(), lines 79-139, and the handlers around it *)

Init ==
    /\ pc = "ask_side"
    /\ side = <<>>
    /\ bot_is_white = FALSE
    /\ board = NoBoard
    /\ move = NoMove
    /\ rng \in 0..(RngStates - 1)
    /\ outcome = ""
    /\ warned = FALSE
    /\ goodbye = FALSE
    /\ interrupted = FALSE
    /\ exit_status = Running
    /\ applied = 0
    /\ snapshots = 0
    /\ outcomes = 0
    /\ rejects = 0
    /\ asked = "none"
    /\ moveBoard = NoBoard

\* ask(), line 24, then .lower() and the test of line 86: leave the loop with
\* bot_is_white set (line 88) or go to the re-prompt of line 87.
SideAnswer(tok) ==
    /\ side' = Lower(Strip(tok))
    /\ IF side' \in {<<"w">>, <<"b">>}
       THEN /\ bot_is_white' = (side' = <<"w">>)
            /\ pc' = "ask_fen"
       ELSE /\ bot_is_white' = bot_is_white
            /\ pc' = "reask_side"
    /\ UNCHANGED <<board, move, rng, outcome, warned, goodbye, interrupted,
                   exit_status, applied, snapshots, outcomes, rejects, asked,
                   moveBoard>>

\* line 85
AskSide ==
    /\ pc = "ask_side"
    /\ \E tok \in SideTokens : SideAnswer(tok)

\* line 87
ReaskSide ==
    /\ pc = "reask_side"
    /\ \E tok \in SideTokens : SideAnswer(tok)

BoardBuilt(b, w) ==
    /\ board' = b
    /\ warned' = w
    /\ pc' = "print_start"
    /\ UNCHANGED <<side, bot_is_white, move, rng, outcome, goodbye, interrupted,
                   exit_status, applied, snapshots, outcomes, rejects, asked,
                   moveBoard>>

\* The malformed-FEN branch letting the ValueError end the process.
FenAnswer_fatal(fen) ==
    IF fen.text = EmptyFen THEN BoardBuilt(StandardBoard, FALSE)
    ELSE IF fen.text = GarbageFen
    THEN /\ exit_status' = 1
         /\ pc' = "exited"
         /\ UNCHANGED <<side, bot_is_white, board, move, rng, outcome, warned,
                        goodbye, interrupted, applied, snapshots, outcomes,
                        rejects, asked, moveBoard>>
    ELSE BoardBuilt(fen.board, FALSE)

\* lines 92-96 on the line `fen` read at line 91
FenAnswer(fen) ==
    IF fen.text = EmptyFen THEN BoardBuilt(StandardBoard, FALSE)
    ELSE IF fen.text = GarbageFen THEN BoardBuilt(StandardBoard, TRUE)
    ELSE BoardBuilt(fen.board, FALSE)

\* lines 91-96
AskFen ==
    /\ pc = "ask_fen"
    /\ \E fen \in FenInputs : FenAnswer(fen)

\* line 106
PrintStart ==
    /\ pc = "print_start"
    /\ pc' = "loop"
    /\ UNCHANGED <<side, bot_is_white, board, move, rng, outcome, warned, goodbye,
                   interrupted, exit_status, applied, snapshots, outcomes, rejects,
                   asked, moveBoard>>

\* lines 109-111
LoopTop ==
    /\ pc = "loop"
    /\ pc' = IF human_turn_now THEN "human_ask" ELSE "bot_choose"
    /\ UNCHANGED <<side, bot_is_white, board, move, rng, outcome, warned, goodbye,
                   interrupted, exit_status, applied, snapshots, outcomes, rejects,
                   asked, moveBoard>>

\* lines 113-115 on the line `tok` read by ask()
HumanAnswer(tok) ==
    LET uci == Lower(Strip(tok))
        m == parse_uci_move(board, uci)
    IN  /\ move' = m
        /\ IF m = NoMove
           THEN /\ rejects < MaxRejects
                /\ pc' = "human_reject"
                /\ UNCHANGED <<asked, moveBoard>>
           ELSE /\ pc' = "human_push"
                /\ asked' = "human"
                /\ moveBoard' = board
        /\ UNCHANGED <<side, bot_is_white, board, rng, outcome, warned, goodbye,
                       interrupted, exit_status, applied, snapshots, outcomes,
                       rejects>>

\* lines 112-115
HumanInput ==
    /\ pc = "human_ask"
    /\ \E tok \in MoveTokens : HumanAnswer(tok)

\* The rejection branch without its `continue`: control falls into the push.
HumanReject_fallthrough ==
    /\ pc = "human_reject"
    /\ rejects' = rejects + 1
    /\ pc' = "human_push"
    /\ UNCHANGED <<side, bot_is_white, board, move, rng, outcome, warned, goodbye,
                   interrupted, exit_status, applied, snapshots, outcomes, asked,
                   moveBoard>>

\* lines 116-117
HumanReject ==
    /\ pc = "human_reject"
    /\ rejects' = rejects + 1
    /\ pc' = "loop"
    /\ UNCHANGED <<side, bot_is_white, board, move, rng, outcome, warned, goodbye,
                   interrupted, exit_status, applied, snapshots, outcomes, asked,
                   moveBoard>>

\* board.push(move), lines 119 and 135
Push(next) ==
    /\ applied < MaxPlies
    /\ \E n \in PushResults(board, move) : board' = n
    /\ applied' = applied + 1
    /\ rejects' = 0
    /\ pc' = next
    /\ UNCHANGED <<side, bot_is_white, move, rng, outcome, warned, goodbye,
                   interrupted, exit_status, snapshots, outcomes, asked, moveBoard>>

\* The loop going on without the print_fen call.
Snapshot_skipped(next) ==
    /\ pc' = next
    /\ UNCHANGED <<side, bot_is_white, board, move, rng, outcome, warned, goodbye,
                   interrupted, exit_status, applied, snapshots, outcomes, rejects,
                   asked, moveBoard>>

\* print_fen(board), lines 120 and 136
Snapshot(next) ==
    /\ snapshots' = snapshots + 1
    /\ pc' = next
    /\ UNCHANGED <<side, bot_is_white, board, move, rng, outcome, warned, goodbye,
                   interrupted, exit_status, applied, outcomes, rejects, asked,
                   moveBoard>>

\* The outcome printed without the `break`: the loop goes round again.
ReportOutcome_nobreak ==
    /\ outcome' = game_over_message(board)
    /\ outcomes' = outcomes + 1
    /\ pc' = "loop"
    /\ UNCHANGED <<side, bot_is_white, board, move, rng, warned, goodbye,
                   interrupted, exit_status, applied, snapshots, rejects, asked,
                   moveBoard>>

\* print(game_over_message(board)); break -- lines 122-123, 131-132, 138-139
ReportOutcome ==
    /\ outcome' = game_over_message(board)
    /\ outcomes' = outcomes + 1
    /\ pc' = "done"
    /\ UNCHANGED <<side, bot_is_white, board, move, rng, warned, goodbye,
                   interrupted, exit_status, applied, snapshots, rejects, asked,
                   moveBoard>>

\* The check with its `break` outside the `if`: the loop is left after any move.
GameOverCheck_break == ReportOutcome

\* if board.is_game_over(): report and break; else next iteration
\* (lines 121-124 and 137-139)
GameOverCheck ==
    IF is_game_over(board)
    THEN ReportOutcome
    ELSE /\ pc' = "loop"
         /\ UNCHANGED <<side, bot_is_white, board, move, rng, outcome, warned,
                        goodbye, interrupted, exit_status, applied, snapshots,
                        outcomes, rejects, asked, moveBoard>>

\* line 119
HumanPush == pc = "human_push" /\ Push("human_snapshot")

\* line 120
HumanSnapshot == pc = "human_snapshot" /\ Snapshot("human_check")

\* lines 121-124
HumanCheck == pc = "human_check" /\ GameOverCheck

\* lines 127-129
BotChoose ==
    /\ pc = "bot_choose"
    /\ move' = choose_bot_move(board, rng)
    /\ IF move' = NoMove
       THEN /\ pc' = "bot_none"
            /\ UNCHANGED <<rng, asked, moveBoard>>
       ELSE /\ pc' = "bot_announce"
            /\ rng' = rng_next(rng)
            /\ asked' = "bot"
            /\ moveBoard' = board
    /\ UNCHANGED <<side, bot_is_white, board, outcome, warned, goodbye,
                   interrupted, exit_status, applied, snapshots, outcomes, rejects>>

\* The no-move branch printing a fixed "Game over." instead of classifying.
BotNone_unclassified ==
    /\ pc = "bot_none"
    /\ outcome' = "Game over."
    /\ outcomes' = outcomes + 1
    /\ pc' = "done"
    /\ UNCHANGED <<side, bot_is_white, board, move, rng, warned, goodbye,
                   interrupted, exit_status, applied, snapshots, rejects, asked,
                   moveBoard>>

\* lines 131-132
BotNone == pc = "bot_none" /\ ReportOutcome

\* line 134
BotAnnounce ==
    /\ pc = "bot_announce"
    /\ pc' = "bot_push"
    /\ UNCHANGED <<side, bot_is_white, board, move, rng, outcome, warned, goodbye,
                   interrupted, exit_status, applied, snapshots, outcomes, rejects,
                   asked, moveBoard>>

\* line 135
BotPush == pc = "bot_push" /\ Push("bot_snapshot")

\* line 136
BotSnapshot == pc = "bot_snapshot" /\ Snapshot("bot_check")

\* lines 137-139
BotCheck == pc = "bot_check" /\ GameOverCheck

Prompts == {"ask_side", "reask_side", "ask_fen", "human_ask"}

\* The EOF handler leaving with a failure status (raise SystemExit(1)).
InputClosed_failure ==
    /\ pc \in Prompts
    /\ goodbye' = TRUE
    /\ exit_status' = 1
    /\ pc' = "exited"
    /\ UNCHANGED <<side, bot_is_white, board, move, rng, outcome, warned,
                   interrupted, applied, snapshots, outcomes, rejects, asked,
                   moveBoard>>

\* ask(), lines 25-27: input() raises EOFError; "Goodbye." and SystemExit,
\* which nothing catches, so the process exits with status 0.
InputClosed ==
    /\ pc \in Prompts
    /\ goodbye' = TRUE
    /\ exit_status' = 0
    /\ pc' = "exited"
    /\ UNCHANGED <<side, bot_is_white, board, move, rng, outcome, warned,
                   interrupted, applied, snapshots, outcomes, rejects, asked,
                   moveBoard>>

\* The interrupt handler printing its notice and letting the session go on.
Interrupt_ignored ==
    /\ exit_status = Running
    /\ pc \notin {"done", "exited"}
    /\ ~interrupted
    /\ interrupted' = TRUE
    /\ UNCHANGED <<pc, side, bot_is_white, board, move, rng, outcome, warned,
                   goodbye, exit_status, applied, snapshots, outcomes, rejects,
                   asked, moveBoard>>

\* lines 143-147: KeyboardInterrupt raised anywhere inside main()
Interrupt ==
    /\ exit_status = Running
    /\ interrupted' = TRUE
    /\ exit_status' = 0
    /\ pc' = "exited"
    /\ UNCHANGED <<side, bot_is_white, board, move, rng, outcome, warned, goodbye,
                   applied, snapshots, outcomes, rejects, asked, moveBoard>>

\* main() returns after the break (line 144): the process exits with status 0
Return ==
    /\ pc = "done"
    /\ exit_status' = 0
    /\ pc' = "exited"
    /\ UNCHANGED <<side, bot_is_white, board, move, rng, outcome, warned, goodbye,
                   interrupted, applied, snapshots, outcomes, rejects, asked,
                   moveBoard>>

Next ==
    \/ AskSide
    \/ ReaskSide
    \/ AskFen
    \/ PrintStart
    \/ LoopTop
    \/ HumanInput
    \/ HumanReject
    \/ HumanPush
    \/ HumanSnapshot
    \/ HumanCheck
    \/ BotChoose
    \/ BotNone
    \/ BotAnnounce
    \/ BotPush
    \/ BotSnapshot
    \/ BotCheck
    \/ InputClosed
    \/ Interrupt
    \/ Return

Spec == Init /\ [][Next]_vars

-----------------------------------------------------------------------------
(* The termination classifier on its own: every bundle of the five signals, *)
(* either side to move, either side assignment.                             *)

Bundles == {b \in BoardShapes : b.legal = {} /\ b.captures = {}}

InitClassify ==
    /\ pc = "classify"
    /\ side = <<>>
    /\ bot_is_white \in BOOLEAN
    /\ board \in Bundles
    /\ move = NoMove
    /\ rng = 0
    /\ outcome = ""
    /\ warned = FALSE
    /\ goodbye = FALSE
    /\ interrupted = FALSE
    /\ exit_status = Running
    /\ applied = 0
    /\ snapshots = 0
    /\ outcomes = 0
    /\ rejects = 0
    /\ asked = "none"
    /\ moveBoard = NoBoard

\* print(game_over_message(board)), as at lines 122, 131 and 138
Classify ==
    /\ pc = "classify"
    /\ outcome' = game_over_message(board)
    /\ outcomes' = outcomes + 1
    /\ pc' = "classified"
    /\ UNCHANGED <<side, bot_is_white, board, move, rng, warned, goodbye,
                   interrupted, exit_status, applied, snapshots, rejects, asked,
                   moveBoard>>

NextClassify == Classify

SpecClassify == InitClassify /\ [][NextClassify]_vars

-----------------------------------------------------------------------------
(* Claims *)

\* The colours of the two parties (line 88 and the comment of lines 99-100)
BotSide == IF bot_is_white THEN WHITE ELSE BLACK

HumanSide == IF bot_is_white THEN BLACK ELSE WHITE

HumanPly == {"human_ask", "human_reject", "human_push"}

BotPly == {"bot_choose", "bot_none", "bot_announce", "bot_push"}

Pending == {"human_push", "bot_announce", "bot_push"}

\* C1: whenever the human is being prompted or a human move is pending, the
\* board's side to move is the human's side; whenever the bot policy is being
\* invoked or a bot move is pending, it is the bot's side; and a pending move
\* was acquired from the party whose side is to move on the board.
C1_TurnFromAuthority ==
    /\ (pc \in HumanPly => board.turn = HumanSide)
    /\ (pc \in BotPly => board.turn = BotSide)
    /\ (pc \in Pending => (asked = "human") = (board.turn = HumanSide))
    /\ (pc \in Pending => (asked = "bot") = (board.turn = BotSide))

\* C1 witness: the human is prompted after moves were applied and a token was
\* rejected, on a board whose side to move is black.
C1_Witness ==
    /\ pc = "human_ask"
    /\ applied >= 1
    /\ rejects >= 1
    /\ board.turn = BLACK

\* C2: a move about to be applied is a legal move of the current board, and
\* the board it was validated or chosen against is the current board.
C2_AppliedMoveIsLegalNow ==
    pc \in Pending => (move \in board.legal /\ moveBoard = board)

\* C2 witness: a bot move is about to be pushed after the position has
\* already changed.
C2_Witness ==
    /\ pc = "bot_push"
    /\ applied >= 1
    /\ move \in board.legal

\* A step of the rejection path: the token is rejected, the message is
\* printed, and the loop returns to its top after a rejection.
RejectPath ==
    \/ (pc = "human_ask" /\ pc' = "human_reject")
    \/ pc = "human_reject"
    \/ (pc = "loop" /\ rejects > 0)

\* C3: along the rejection path the board (hence the side to move) does not
\* change, no move is applied, no snapshot or outcome is printed, and unless
\* the session is interrupted the next thing is the human prompt again.
C3_RejectionLeavesPly ==
    [][RejectPath =>
         /\ board' = board
         /\ applied' = applied
         /\ snapshots' = snapshots
         /\ outcomes' = outcomes
         /\ outcome' = outcome
         /\ (pc = "human_reject" => pc' \in {"loop", "exited"})
         /\ (pc = "loop" => pc' \in {"human_ask", "exited"})]_vars

\* C3 witness: the human is prompted again after two consecutive rejections.
C3_Witness ==
    /\ pc = "human_ask"
    /\ rejects >= 2

CheckmateMessages == {"Checkmate. White wins.", "Checkmate. Black wins."}

\* The winner an outcome message names
Winner(msg) ==
    IF msg = "Checkmate. White wins." THEN "White"
    ELSE IF msg = "Checkmate. Black wins." THEN "Black"
    ELSE "none"

\* C4: the message printed for a signal bundle is that of the first signal
\* set in the order checkmate, stalemate, insufficient material, 75-move
\* rule, fivefold repetition, and "Game over." when none is set.
C4_ClassifierPriority ==
    pc = "classified" =>
        /\ (board.checkmate => outcome \in CheckmateMessages)
        /\ (~board.checkmate /\ board.stalemate => outcome = "Draw by stalemate.")
        /\ (~board.checkmate /\ ~board.stalemate /\ board.insufficient
              => outcome = "Draw by insufficient material.")
        /\ (~board.checkmate /\ ~board.stalemate /\ ~board.insufficient
              /\ board.seventyfive => outcome = "Draw by 75-move rule.")
        /\ (~board.checkmate /\ ~board.stalemate /\ ~board.insufficient
              /\ ~board.seventyfive /\ board.fivefold
              => outcome = "Draw by fivefold repetition.")
        /\ (~board.checkmate /\ ~board.stalemate /\ ~board.insufficient
              /\ ~board.seventyfive /\ ~board.fivefold => outcome = "Game over.")

\* C4 witness: a bundle with checkmate and every draw flag set was classified
\* as checkmate.
C4_Witness ==
    /\ pc = "classified"
    /\ board.checkmate /\ board.stalemate /\ board.insufficient
    /\ board.seventyfive /\ board.fivefold
    /\ outcome \in CheckmateMessages

\* C5: a checkmate message names as winner the side that is not to move, and
\* every other message names no winner.
C5_WinnerIsLastMover ==
    pc = "classified" =>
        /\ (board.checkmate /\ board.turn = WHITE => Winner(outcome) = "Black")
        /\ (board.checkmate /\ board.turn = BLACK => Winner(outcome) = "White")
        /\ (~board.checkmate => Winner(outcome) = "none")

\* C5 witness: checkmate with black to move and the bot playing black was
\* reported as a win for white.
C5_Witness ==
    /\ pc = "classified"
    /\ board.checkmate
    /\ board.turn = BLACK
    /\ ~bot_is_white
    /\ outcome = "Checkmate. White wins."

\* C6: the move the bot policy returns is a legal move of the board, it is a
\* capture whenever the board has a capture, and the policy returns no move
\* only on a board without legal moves.
C6_BotPrefersCaptures ==
    /\ (pc = "bot_announce" =>
          /\ move \in board.legal
          /\ (board.captures # {} => move \in board.captures))
    /\ (pc = "bot_none" => board.legal = {})

\* C6 witness: the policy returned a capture on a board that also has a legal
\* move that is no capture.
C6_Witness ==
    /\ pc = "bot_announce"
    /\ board.captures # {}
    /\ board.legal \ board.captures # {}
    /\ move \in board.captures

\* C7 as stated: on the no-move branch of the bot nothing is applied and the
\* report is the bare "Game over.", whatever the signals of the position.
C7_Original ==
    [][pc = "bot_none" /\ pc' = "done" =>
         /\ board' = board
         /\ applied' = applied
         /\ outcome' = "Game over."]_vars

\* C7 amended: when it is the bot's turn and there is no legal move, the
\* policy returns no move and the session ends without applying any move,
\* reporting the classifier's message for the position: checkmate won by the
\* human's side when the checkmate signal is set, draw by stalemate otherwise.
C7_NoMoveIsClassified ==
    /\ [](pc = "bot_none" =>
            /\ board.legal = {}
            /\ move = NoMove
            /\ board.turn = BotSide)
    /\ [][pc = "bot_none" =>
            /\ board' = board
            /\ applied' = applied
            /\ snapshots' = snapshots
            /\ pc' \in {"done", "exited"}
            /\ (pc' = "done" =>
                  /\ outcomes' = outcomes + 1
                  /\ (board.checkmate =>
                        Winner(outcome') = IF HumanSide = WHITE THEN "White" ELSE "Black")
                  /\ (~board.checkmate => outcome' = "Draw by stalemate."))]_vars

\* C7 witness: a session started on a stalemate with the bot to move ended
\* with the stalemate message and no move applied.
C7_Witness ==
    /\ pc = "done"
    /\ move = NoMove
    /\ applied = 0
    /\ board.stalemate
    /\ outcome = "Draw by stalemate."

InLoop ==
    {"loop", "human_ask", "human_reject", "human_push", "human_snapshot",
     "human_check", "bot_choose", "bot_none", "bot_announce", "bot_push",
     "bot_snapshot", "bot_check"}

\* C8 as stated: the session is over only with an outcome reported for a
\* board that is game over, or with the input closed.
C8_Original ==
    pc \in {"done", "exited"} =>
        \/ (outcomes = 1 /\ is_game_over(board))
        \/ goodbye

\* C8 amended: the main loop terminates only when an outcome is reported for
\* a current board that is game over, when the input is closed, or when an
\* external interrupt is delivered; every other step of the loop stays in it.
C8_LoopExits ==
    /\ [](pc \in {"done", "exited"} =>
            \/ (outcomes = 1 /\ outcome # "" /\ is_game_over(board))
            \/ goodbye
            \/ interrupted)
    /\ [][(pc \in InLoop /\ pc' \notin InLoop) =>
            \/ (pc' = "done" /\ is_game_over(board) /\ board' = board
                  /\ pc \in {"human_check", "bot_check", "bot_none"})
            \/ (pc' = "exited" /\ goodbye' /\ pc = "human_ask")
            \/ (pc' = "exited" /\ interrupted')]_vars
    /\ [][(pc \in {"human_check", "bot_check"} /\ ~is_game_over(board) /\ ~interrupted')
            => pc' = "loop"]_vars

\* C8 witness: the loop was left with an outcome after a move was applied.
C8_Witness ==
    /\ pc = "done"
    /\ applied >= 1
    /\ outcomes = 1
    /\ is_game_over(board)

\* C9: the input can be found closed at every prompt; when it is, the goodbye
\* notice is printed and the process exits with status 0, the board is as it
\* was, no move is applied then or later, and no outcome message is printed.
C9_InputClosedEndsCleanly ==
    /\ [](pc \in Prompts => ENABLED InputClosed)
    /\ [](goodbye => pc = "exited" /\ exit_status = 0 /\ outcomes = 0 /\ outcome = "")
    /\ [][goodbye' =>
            /\ board' = board
            /\ applied' = applied
            /\ snapshots' = snapshots
            /\ outcomes' = outcomes]_vars

\* C9 witness: the input was closed at the human prompt after a move had
\* been applied.
C9_Witness ==
    /\ goodbye
    /\ exit_status = 0
    /\ applied >= 1
    /\ board.turn = HumanSide

\* C10: an interrupt can be delivered at every point of a running session;
\* it prints the notice and exits with status 0, it leaves the board and the
\* number of applied moves as they were, and nothing is applied afterwards.
C10_InterruptStopsCleanly ==
    /\ [](exit_status = Running => ENABLED Interrupt)
    /\ [](interrupted => pc = "exited" /\ exit_status = 0)
    /\ [][interrupted' =>
            /\ board' = board
            /\ applied' = applied
            /\ snapshots' = snapshots
            /\ outcomes' = outcomes]_vars

\* C10 witness: the session was interrupted between a push and its snapshot.
C10_Witness ==
    /\ interrupted
    /\ exit_status = 0
    /\ applied = 1
    /\ snapshots = 0

SidePrompts == {"ask_side", "reask_side"}

\* The lines that are 'w' or 'b' once trimmed, whatever their case
SanctionedSide(tok) == Strip(tok) \in {<<"w">>, <<"W">>, <<"b">>, <<"B">>}

\* C11: a line typed at the side prompt leaves the prompt exactly when it is
\* 'w' or 'b' in either case (trimmed); it then makes the bot white exactly
\* when it is 'w'; any other line leads to the re-prompt with the process
\* still running; and outside the side prompts the assignment never changes.
C11_SideSelection ==
    /\ [][\A tok \in SideTokens :
            (pc \in SidePrompts /\ SideAnswer(tok)) =>
                /\ (pc' = "ask_fen") = SanctionedSide(tok)
                /\ (~SanctionedSide(tok) => pc' = "reask_side" /\ exit_status' = Running)
                /\ (SanctionedSide(tok) =>
                      bot_is_white' = (Strip(tok) \in {<<"w">>, <<"W">>}))]_vars
    /\ [][pc \notin SidePrompts => bot_is_white' = bot_is_white]_vars
    /\ [](pc \in HumanPly => board.turn # BotSide)

\* C11 witness: the line 'white' was typed and the session is at the
\* re-prompt, still running.
C11_Witness ==
    /\ pc = "reask_side"
    /\ side = <<"w", "h", "i", "t", "e">>
    /\ exit_status = Running

\* C12: an empty starting line gives the standard position without warning;
\* a line the library rejects gives the standard position with the warning,
\* the process still running and the session going on to the start snapshot
\* and from there into the turn loop.
C12_FenFallback ==
    /\ [][\A fen \in FenInputs :
            (pc = "ask_fen" /\ FenAnswer(fen)) =>
                /\ (fen.text = EmptyFen => board' = StandardBoard /\ ~warned')
                /\ (fen.text = GarbageFen =>
                      /\ board' = StandardBoard
                      /\ warned'
                      /\ exit_status' = Running)
                /\ pc' = "print_start"]_vars
    /\ [][(pc = "print_start" /\ ~interrupted') => pc' = "loop"]_vars
    /\ [](warned /\ applied = 0 => board = StandardBoard)

\* C12 witness: after the warning the session played a move from the
\* standard position.
C12_Witness ==
    /\ warned
    /\ applied >= 1
    /\ pc = "loop"

Stopped == {"done", "exited"}

SnapshotDue == {"human_snapshot", "bot_snapshot"}

\* C13: at most one outcome message is printed; once it is printed the
\* session is out of the loop for good: no prompt, no move acquired or
\* applied, no snapshot, no second message, the board unchanged.
C13_TerminatedIsFinal ==
    /\ [](outcomes <= 1)
    /\ [](outcomes >= 1 => pc \in Stopped /\ outcome # "")
    /\ [][outcomes >= 1 =>
            /\ pc' \in Stopped
            /\ board' = board
            /\ move' = move
            /\ applied' = applied
            /\ snapshots' = snapshots
            /\ outcomes' = outcomes
            /\ outcome' = outcome]_vars

\* C13 witness: the process has exited after reporting an outcome that
\* followed an applied move.
C13_Witness ==
    /\ pc = "exited"
    /\ outcomes = 1
    /\ applied >= 1
    /\ ~interrupted

\* C14 as stated: except in the instant between a push and its snapshot, the
\* number of snapshots equals the number of applied moves.
C14_Original ==
    pc \notin SnapshotDue => snapshots = applied

\* C14 amended: every push is followed by its snapshot as the very next step,
\* before any outcome message and before any move is acquired, unless an
\* interrupt ends the session in between; a rejection prints no snapshot; so
\* the snapshots equal the applied moves except between a push and its
\* snapshot and after an interrupt there, where they are one behind.
C14_SnapshotPerMove ==
    /\ [](snapshots <= applied /\ applied <= snapshots + 1)
    /\ [](pc \notin SnapshotDue /\ ~interrupted => snapshots = applied)
    /\ [][applied' # applied => pc' \in SnapshotDue /\ snapshots' = snapshots]_vars
    /\ [][(pc \in SnapshotDue /\ ~interrupted') =>
            /\ snapshots' = snapshots + 1
            /\ outcomes' = outcomes
            /\ move' = move
            /\ board' = board]_vars
    /\ [][snapshots' # snapshots => pc \in SnapshotDue]_vars
    /\ [][RejectPath => snapshots' = snapshots]_vars

\* C14 witness: two moves were applied and two snapshots printed.
C14_Witness ==
    /\ applied = 2
    /\ snapshots = 2
    /\ pc \in {"human_check", "bot_check"}

\* What chess.Move.from_uci makes of a typed line (after strip and lower)
Parsed(tok) == from_uci(Lower(Strip(tok)))

Malformed(tok) == Parsed(tok) = InvalidUci

IllegalHere(tok) == ~Malformed(tok) /\ Parsed(tok) \notin board.legal

\* C15 as stated: a malformed token and a token that parses but is illegal
\* are rejected differently (two reasons), and a move is returned only for a
\* token that parses and is legal.
C15_Original ==
    [][/\ \A t1, t2 \in MoveTokens :
            (pc = "human_ask" /\ Malformed(t1) /\ IllegalHere(t2)) =>
                ~(HumanAnswer(t1) /\ HumanAnswer(t2))
       /\ \A tok \in MoveTokens :
            (pc = "human_ask" /\ HumanAnswer(tok) /\ pc' = "human_push") =>
                (~Malformed(tok) /\ move' = Parsed(tok) /\ move' \in board.legal)]_vars

\* C15 amended: a validated move is returned only when the token both parses
\* and matches a legal move; every other token is rejected, and a malformed
\* token and an illegal one are rejected in the same way (None, and the one
\* message of line 116), with no reason told apart.
C15_OneRejection ==
    /\ [][\A tok \in MoveTokens :
            (pc = "human_ask" /\ HumanAnswer(tok)) =>
                IF ~Malformed(tok) /\ Parsed(tok) \in board.legal
                THEN move' = Parsed(tok) /\ pc' = "human_push"
                ELSE move' = NoMove /\ pc' = "human_reject"]_vars
    /\ [][\A t1, t2 \in MoveTokens :
            (pc = "human_ask" /\ Malformed(t1) /\ IllegalHere(t2)) =>
                (HumanAnswer(t1) = HumanAnswer(t2))]_vars

\* C15 witness: a token was rejected on a board that has legal moves.
C15_Witness ==
    /\ pc = "human_reject"
    /\ move = NoMove
    /\ board.legal = {E7E8Q}

\* C17: a validated human move is pushed once, onto the board it was
\* validated on; the push gives a board the library returns for that move,
\* with the bot's side to move; if that board is not game over the loop goes
\* straight to the bot policy; and neither party is asked for a move right
\* after supplying the last one.
C17_HumanPlyThenBot ==
    /\ [][(pc = "human_push" /\ applied' # applied) =>
            /\ asked = "human"
            /\ move \in board.legal
            /\ applied' = applied + 1
            /\ board' \in PushResults(board, move)
            /\ board'.turn = BotSide
            /\ pc' = "human_snapshot"]_vars
    /\ [][(pc = "human_check" /\ ~is_game_over(board) /\ ~interrupted')
            => pc' = "loop"]_vars
    /\ [][(pc = "loop" /\ asked = "human" /\ ~interrupted')
            => pc' = "bot_choose"]_vars
    /\ [](pc = "human_ask" => asked # "human")
    /\ [](pc = "bot_choose" => asked # "bot")

\* C17 witness: the bot policy is being invoked right after the human's
\* first move, with the bot's side to move.
C17_Witness ==
    /\ pc = "bot_choose"
    /\ asked = "human"
    /\ applied = 1
    /\ snapshots = 1
    /\ board.turn = BotSide

\* C18: whenever the human is prompted for a move, the board has a legal
\* move.
C18_PromptHasLegalMove ==
    pc = "human_ask" => board.legal # {}

\* C19: no move is pending (acquired and about to be applied) on a board
\* that the terminal signals already call game over.
C19_NoPlyWhenGameOver ==
    pc \in Pending => ~is_game_over(board)

FiveOutcomes ==
    CheckmateMessages \cup
      {"Draw by stalemate.", "Draw by insufficient material.",
       "Draw by 75-move rule.", "Draw by fivefold repetition."}

\* C20: the outcome printed by the game-over check after an applied move is
\* one of the five enumerated ones, and "Game over." is printed nowhere but
\* on the branch where the bot policy found no move.
C20_EnumeratedOutcome ==
    /\ [][(pc \in {"human_check", "bot_check"} /\ pc' = "done") =>
            /\ is_game_over(board)
            /\ outcome' \in FiveOutcomes]_vars
    /\ [][(outcome' = "Game over." /\ outcome # "Game over.") => pc = "bot_none"]_vars
    /\ [](outcome = "Game over." => applied = snapshots /\ move = NoMove)

\* C20 witness: the session stopped after an applied move with the fivefold
\* repetition message.
C20_Witness ==
    /\ pc = "done"
    /\ applied >= 1
    /\ outcome = "Draw by fivefold repetition."

====
